---- MODULE Spec2Model ----
(***************************************************************************)
(* Chains of complete graphs and the packing-coloring integer program.     *)
(*                                                                         *)
(* A graph is a record [nodes, edges] as networkx keeps it: an edge is the *)
(* set of its endpoints ({u,v}, or {u} for a self-loop), adding an edge    *)
(* adds its endpoints as nodes, and adding an edge twice keeps one copy.   *)
(***************************************************************************)
EXTENDS Integers, FiniteSets, Sequences, TLC

VARIABLES pc, fn, P_n, B_n, K_n, number_of_k_complete_graphs, it,
          node_offset, G, pathG, x, z, color_assignment, z_val

vars == <<pc, fn, P_n, B_n, K_n, number_of_k_complete_graphs, it,
          node_offset, G, pathG, x, z, color_assignment, z_val>>

(* ------------------------------ bounds --------------------------------- *)
MaxP == 6
MaxB == 3
MaxK == 4
MaxEdgeListNodes == 4
MaxEdgeListLen == 4
MaxSolveNodes == 4
MaxRawNodes == 2

(* --------------------------- python integers --------------------------- *)
\* a % b of Python: the result has the sign of the divisor
PyMod(a, b) == IF b > 0 THEN a % b ELSE 0 - ((0 - a) % (0 - b))

\* a // b of Python: floor division
PyFloorDiv(a, b) == IF b > 0 THEN a \div b ELSE (0 - a) \div (0 - b)

(* ------------------------------ networkx ------------------------------- *)
EmptyGraph == [nodes |-> {}, edges |-> {}]

\* G.add_edges_from(es): every endpoint becomes a node
add_edges_from(g, es) ==
    [nodes |-> g.nodes \cup UNION es, edges |-> g.edges \cup es]

\* G.add_edge(u, v)
add_edge(g, u, v) == add_edges_from(g, {{u, v}})

\* nx.relabel_nodes(nx.complete_graph(k), {n: n + offset}).edges()
complete_graph_edges(k, offset) ==
    {{a + offset, b + offset} : a, b \in 0 .. (k - 1)} \ {{a + offset} : a \in 0 .. (k - 1)}

number_of_nodes(g) == Cardinality(g.nodes)
\* G.number_of_edges(): a self-loop counts once
number_of_edges(g) == Cardinality(g.edges)

(* ------------------------------ generator ------------------------------ *)
PathGG == "graph_generators.create_path_connected_k_complete_graphs"
PathMain == "main.create_path_connected_k_complete_graphs"
Cycle == "graph_generators.create_cycle_connected_k_complete_graphs"
EdgeList == "lp.edge_list"
PathFns == {PathGG, PathMain}
GeneratorFns == {PathGG, PathMain, Cycle}

\* the assertions of graph_generators.py, in their order
ValidateGG(P, B, K) == P > 0 /\ B > 0 /\ B <= K /\ PyMod(P, B) = 0

\* the assertions of main.py, in their order
ValidateMain(P, B, K) == B # 0 /\ B <= K /\ PyMod(P, B) = 0

\* the assertion of the cycle variant, then those of the path chain it calls
ValidateCycle(P, B, K) == B = 2 /\ ValidateGG(P, B, K)

Validate(f, P, B, K) ==
    IF f = PathMain THEN ValidateMain(P, B, K)
    ELSE IF f = Cycle THEN ValidateCycle(P, B, K)
    ELSE ValidateGG(P, B, K)

\* the chain edge taken one label too far: offset - (K_n - B_n)
ChainEdgeSource_noStep(offset, B, K) == offset - (K - B)

\* the first endpoint of the edge that ties a block to the previous one
ChainEdgeSource(offset, B, K) == offset - (K - B + 1)

\* one iteration of the block loop, on the graph
LoopBody(g, offset, B, K) ==
    LET withBlock == add_edges_from(g, complete_graph_edges(K, offset))
    IN  IF offset # 0
        THEN add_edge(withBlock, ChainEdgeSource(offset, B, K), offset)
        ELSE withBlock

\* the second endpoint of the edge that closes the chain into a cycle
ClosingEdgeTarget(g) == number_of_nodes(g) - 1 - 3

Init ==
    /\ pc = "idle"
    /\ fn = "none"
    /\ P_n = 0
    /\ B_n = 0
    /\ K_n = 0
    /\ number_of_k_complete_graphs = 0
    /\ it = 0
    /\ node_offset = 0
    /\ G = EmptyGraph
    /\ pathG = EmptyGraph
    /\ x = <<>>
    /\ z = 0
    /\ color_assignment = <<>>
    /\ z_val = 0

\* a call of a generator: G and node_offset are set up, the assertions run
Call ==
    /\ pc = "idle"
    /\ \E f \in GeneratorFns, P \in (0 - 2) .. MaxP, B \in (0 - 2) .. MaxB, K \in 1 .. MaxK :
        /\ fn' = f
        /\ P_n' = P
        /\ B_n' = B
        /\ K_n' = K
        /\ IF Validate(f, P, B, K)
           THEN /\ pc' = "loop"
                /\ number_of_k_complete_graphs' = PyFloorDiv(P, B)
           ELSE /\ pc' = "AssertionError"
                /\ number_of_k_complete_graphs' = 0
    /\ it' = 0
    /\ node_offset' = 0
    /\ G' = EmptyGraph
    /\ UNCHANGED <<pathG, x, z, color_assignment, z_val>>

\* one iteration of `for _ in range(number_of_k_complete_graphs)`
AddBlock ==
    /\ pc = "loop"
    /\ it < number_of_k_complete_graphs
    /\ G' = LoopBody(G, node_offset, B_n, K_n)
    /\ node_offset' = node_offset + K_n
    /\ it' = it + 1
    /\ UNCHANGED <<pc, fn, P_n, B_n, K_n, number_of_k_complete_graphs, pathG,
                   x, z, color_assignment, z_val>>

\* the loop is over: the path chain is returned; the cycle variant adds its
\* closing edge to it before it returns
Return ==
    /\ pc = "loop"
    /\ it >= number_of_k_complete_graphs
    /\ pc' = "returned"
    /\ pathG' = G
    /\ G' = IF fn = Cycle THEN add_edge(G, 0, ClosingEdgeTarget(G)) ELSE G
    /\ UNCHANGED <<fn, P_n, B_n, K_n, number_of_k_complete_graphs, it, node_offset,
                   x, z, color_assignment, z_val>>

(* ------------------------- caller's own graph -------------------------- *)
\* G = nx.Graph(); G.add_edges_from(edge_list) for an edge list of the caller
FromEdgeList ==
    /\ pc = "idle"
    /\ \E es \in SUBSET complete_graph_edges(MaxEdgeListNodes, 0) :
        /\ Cardinality(es) <= MaxEdgeListLen
        /\ G' = add_edges_from(EmptyGraph, es)
    /\ fn' = EdgeList
    /\ pathG' = EmptyGraph
    /\ pc' = "returned"
    /\ UNCHANGED <<P_n, B_n, K_n, number_of_k_complete_graphs, it, node_offset,
                   x, z, color_assignment, z_val>>

(* --------------------------- distance oracle --------------------------- *)
NoPath == 0 - 1

RECURSIVE bfs(_, _, _, _, _)
bfs(g, frontier, seen, target, d) ==
    IF target \in frontier THEN d
    ELSE IF frontier = {} THEN NoPath
    ELSE LET next == {w \in g.nodes \ seen : \E u \in frontier : {u, w} \in g.edges}
         IN  bfs(g, next, seen \cup next, target, d + 1)

\* nx.shortest_path_length(G, source, target); NoPath stands for NetworkXNoPath
shortest_path_length(g, source, target) == bfs(g, {source}, {source}, target, 0)

(* ------------------------ packing-coloring model ----------------------- *)
\* solve_packing_coloring_cplex (lp.py) and solve_packing_coloring_pulp
\* (lp_pulp.py) build the same variables, constraints and objective and
\* extract the coloring with the same loop; one model stands for both.
\* range(1, k+1)
Colors(k) == 1 .. k

RECURSIVE RowSum(_, _)
RowSum(row, i) == IF i = 0 THEN 0 ELSE row[i] + RowSum(row, i - 1)

\* constraint (2) for one vertex: sum(x[(v, i)] for i in range(1, k+1)) == 1
OneColor(row, k) == RowSum(row, k) = 1

\* the guard of constraint (3) with a strict comparison: d < i
PackApplies_strict(i, d) == d # NoPath /\ d < i

\* constraint (3), the guard of one color and one pair, d being their
\* distance: no constraint without a path, one when d <= i
PackApplies(i, d) == d # NoPath /\ d <= i

\* constraint (3) for one color and one pair: x[(v,i)] + x[(u,i)] <= 1
Pack(xx, i, v, u) == xx[v][i] + xx[u][i] <= 1

\* constraint (4) with the color counted from zero: (i - 1) * x[(v,i)] <= z
MaxColor_fromZero(xx, zz, v, i) == (i - 1) * xx[v][i] <= zz

\* constraint (4) for one vertex and one color: i * x[(v,i)] <= z
MaxColor(xx, zz, v, i) == i * xx[v][i] <= zz

\* the integer variable z with its lower bound set to k as well
ZDomain_pinned(k) == k .. k

\* the integer variable z with its upper bound one short: ub = k - 1
ZDomain_short(k) == 1 .. (k - 1)

\* the integer variable z: lb = 1, ub = k
ZDomain(k) == 1 .. k

\* the binary variables x[(v,i)]
XDomain == {0, 1}

\* the (color, pair) combinations the constraint loop adds a constraint for;
\* itertools.combinations yields every unordered pair once
PackConstraints(g) ==
    LET k == number_of_nodes(g)
        pairs == {p \in g.nodes \X g.nodes : p[1] < p[2]}
    IN  UNION {{<<i, p[1], p[2]>> : i \in {j \in Colors(k) : PackApplies(j, d)}} :
               <<p, d>> \in {<<q, shortest_path_length(g, q[1], q[2])>> : q \in pairs}}

\* the assignments of x that satisfy the constraints (2) and (3)
Packed(g, k, constraints) ==
    LET rows == {row : row \in {r \in [Colors(k) -> XDomain] : OneColor(r, k)}}
    IN  {xx \in [g.nodes -> rows] :
            \A c \in constraints : Pack(xx, c[1], c[2], c[3])}

\* every assignment of the variables that satisfies the constraints
Feasible(g) ==
    LET k == number_of_nodes(g)
    IN  UNION {{[x |-> xx, z |-> zz] : zz \in {v \in ZDomain(k) :
                   \A w \in g.nodes : \A i \in Colors(k) : MaxColor(xx, v, w, i)}} :
               xx \in UNION {Packed(g, k, constraints) :
                               constraints \in {PackConstraints(g)}}}

\* the least value of the objective over a non-empty set of assignments
MinZ(assignments) ==
    CHOOSE value \in {s.z : s \in assignments} :
        \A s \in assignments : value <= s.z

\* mdl.minimize(z): the feasible assignments of least z
Optimal(g) ==
    UNION {IF feasible = {} THEN {}
           ELSE UNION {{s \in feasible : s.z = value} : value \in {MinZ(feasible)}} :
           feasible \in {Feasible(g)}}

\* the threshold test of the extraction: value > 0.5
AboveThreshold(value) == 2 * value > 1

\* the extraction loop: the first color above the threshold, no entry for a
\* vertex that has none
Extract(g, xx) ==
    LET k == number_of_nodes(g)
        hits(v) == {i \in Colors(k) : AboveThreshold(xx[v][i])}
        colored == {v \in g.nodes : hits(v) # {}}
    IN  [v \in colored |-> CHOOSE i \in hits(v) : \A j \in hits(v) : i <= j]

\* solve_packing_coloring_cplex / solve_packing_coloring_pulp with an exact
\* solver: any optimal assignment may come back; none when the model is
\* infeasible
Solve ==
    /\ pc = "returned"
    /\ number_of_nodes(G) <= MaxSolveNodes
    /\ LET optimal == Optimal(G)
       IN  IF optimal = {}
           THEN /\ pc' = "no_solution"
                /\ x' = <<>>
                /\ z' = 0
                /\ color_assignment' = <<>>
                /\ z_val' = 0
           ELSE \E s \in optimal :
                /\ pc' = "solved"
                /\ x' = s.x
                /\ z' = s.z
                /\ z_val' = s.z
                /\ color_assignment' = Extract(G, s.x)
    /\ UNCHANGED <<fn, P_n, B_n, K_n, number_of_k_complete_graphs, it, node_offset,
                   G, pathG>>

\* the same functions when the solver reports an optimal outcome without the
\* values being checked against the model: extraction reads whatever values
\* the outcome carries
SolveUnchecked ==
    /\ pc = "returned"
    /\ number_of_nodes(G) >= 1
    /\ number_of_nodes(G) <= MaxRawNodes
    /\ LET k == number_of_nodes(G)
       IN  \E xx \in [G.nodes -> [Colors(k) -> XDomain]], zz \in ZDomain(k) :
            /\ pc' = "solved"
            /\ x' = xx
            /\ z' = zz
            /\ z_val' = zz
            /\ color_assignment' = Extract(G, xx)
    /\ UNCHANGED <<fn, P_n, B_n, K_n, number_of_k_complete_graphs, it, node_offset,
                   G, pathG>>

Next == Call \/ AddBlock \/ Return \/ FromEdgeList \/ Solve

Spec == Init /\ [][Next]_vars

NextUnchecked == Call \/ AddBlock \/ Return \/ FromEdgeList \/ SolveUnchecked

SpecUnchecked == Init /\ [][NextUnchecked]_vars

(* ===================== properties of the generators ==================== *)
\* a generator has returned its graph (and it may have been solved since)
Returned == pc \in {"returned", "solved", "no_solution"}

\* the generator's assertions let the call through
Validated == fn \in GeneratorFns /\ pc \notin {"idle", "AssertionError"}

Choose2(k) == (k * (k - 1)) \div 2

\* the labels of block j
Block(j) == (j * K_n) .. ((j + 1) * K_n - 1)

\* the path chain: the graph under construction, then the graph the path
\* generator returned
Chain == IF pc = "loop" THEN G ELSE pathG

RECURSIVE Reach(_, _)
Reach(g, seen) ==
    LET more == {w \in g.nodes \ seen : \E u \in seen : {u, w} \in g.edges}
    IN  IF more = {} THEN seen ELSE Reach(g, seen \cup more)

\* any two vertices of g are joined by a path
Connected(g) == \A v \in g.nodes : Reach(g, {v}) = g.nodes

\* C1: a path chain returned for P_n > 0, B_n > 0, B_n <= K_n, P_n mod B_n = 0
\* has (P_n/B_n)*K_n vertices and (P_n/B_n)*C(K_n,2) + (P_n/B_n - 1) edges
C1_PathChainCounts ==
    (Returned /\ fn \in PathFns /\ P_n > 0 /\ B_n > 0) =>
        /\ number_of_nodes(G) = PyFloorDiv(P_n, B_n) * K_n
        /\ number_of_edges(G) =
             PyFloorDiv(P_n, B_n) * Choose2(K_n) + (PyFloorDiv(P_n, B_n) - 1)

\* C5: a generator called with B_n <= 0, B_n > K_n or P_n mod B_n # 0, and the
\* cycle variant called with B_n # 2, ends in a validation failure
C5_InvalidParametersFail ==
    (fn \in GeneratorFns /\ pc # "idle" /\
        (\/ B_n <= 0
         \/ B_n > K_n
         \/ PyMod(P_n, B_n) # 0
         \/ (fn = Cycle /\ B_n # 2))) => pc = "AssertionError"

\* C6: for K_n >= 2 the cycle chain has the vertices of the path chain and its
\* edges plus exactly one edge the path chain does not have
C6_CycleAddsOneEdge ==
    (Returned /\ fn = Cycle /\ K_n >= 2) =>
        /\ G.nodes = pathG.nodes
        /\ \E e \in G.edges : e \notin pathG.edges /\ G.edges = pathG.edges \cup {e}
        /\ number_of_edges(G) = number_of_edges(pathG) + 1

\* C8: a returned chain has no self-loop and every endpoint of its edges is a
\* label in 0 .. (P_n/B_n)*K_n - 1
C8_NoSelfLoopEndpointsInRange ==
    (Returned /\ fn \in GeneratorFns /\ P_n > 0 /\ B_n > 0) =>
        \A e \in G.edges :
            /\ Cardinality(e) = 2
            /\ \A v \in e : v >= 0 /\ v <= PyFloorDiv(P_n, B_n) * K_n - 1

\* C9: in the path chain for valid parameters, node_offset is a multiple of
\* K_n above every vertex added so far; consecutive blocks j, j+1 are joined
\* by the one edge ((j+1)*K_n - (K_n - B_n + 1), (j+1)*K_n), whose first
\* endpoint is in block j; no edge joins non-consecutive blocks; and the
\* returned chain is connected
C9_PathChainStructure ==
    (Validated /\ B_n > 0) =>
        /\ node_offset % K_n = 0
        /\ \A v \in Chain.nodes : v >= 0 /\ v < node_offset
        /\ \A j \in 0 .. (it - 2) :
            /\ {e \in Chain.edges : e \cap Block(j) # {} /\ e \cap Block(j + 1) # {}}
                 = {{(j + 1) * K_n - (K_n - B_n + 1), (j + 1) * K_n}}
            /\ (j + 1) * K_n - (K_n - B_n + 1) \in Block(j)
            /\ (j + 1) * K_n \in Block(j + 1)
        /\ \A e \in Chain.edges : \A u, v \in e :
             (u \div K_n) - (v \div K_n) \in {0 - 1, 0, 1}
        /\ (pc # "loop" => Connected(Chain))

\* C9 happens: a returned path chain of three blocks or more whose chain edge
\* leaves the previous block from an inner vertex
C9_Witness ==
    /\ pc = "returned"
    /\ fn \in PathFns
    /\ B_n > 0
    /\ B_n < K_n
    /\ it >= 3

(* ======================= properties of the solver ====================== *)
\* v is reached from u by a walk of at most c edges
RECURSIVE WithinSteps(_, _, _, _)
WithinSteps(g, u, v, c) ==
    \/ u = v
    \/ /\ c > 0
       /\ \E w \in g.nodes : {u, w} \in g.edges /\ WithinSteps(g, w, v, c - 1)

\* col is a packing coloring of g: two vertices of color c are more than c apart
IsPackingColoring(g, col) ==
    \A u, v \in g.nodes :
        (u # v /\ col[u] = col[v]) => ~WithinSteps(g, u, v, col[u])

HasPackingColoring(g, m) == \E col \in [g.nodes -> 1 .. m] : IsPackingColoring(g, col)

\* the least m for which g has a packing coloring with colors 1 .. m
PackingChromaticNumber(g) ==
    CHOOSE m \in 1 .. (number_of_nodes(g) + 1) :
        HasPackingColoring(g, m) /\ \A j \in 1 .. (m - 1) : ~HasPackingColoring(g, j)

RECURSIVE MaxOf(_)
MaxOf(S) ==
    IF S = {} THEN 0
    ELSE LET e == CHOOSE e \in S : TRUE
             rest == MaxOf(S \ {e})
         IN  IF e > rest THEN e ELSE rest

\* C2: in a returned coloring every vertex has a color, and two distinct
\* vertices joined by a path that have the same color c are at distance > c
C2_PackingProperty ==
    pc = "solved" =>
        /\ DOMAIN color_assignment = G.nodes
        /\ \A v, u \in G.nodes :
            (/\ v # u
             /\ color_assignment[v] = color_assignment[u]
             /\ shortest_path_length(G, v, u) # NoPath)
                => shortest_path_length(G, v, u) > color_assignment[v]

\* C2 happens: a solved graph in which one color is used on two vertices that
\* a path joins
C2_Witness ==
    /\ pc = "solved"
    /\ \E v, u \in G.nodes :
        /\ v # u
        /\ color_assignment[v] = color_assignment[u]
        /\ shortest_path_length(G, v, u) # NoPath

\* C3: for a graph with at least one vertex the solve returns a solution, its z
\* is the packing chromatic number of the graph, and a single complete block
\* on K_n vertices gets K_n
C3_MinZIsPackingChromaticNumber ==
    (pc \in {"solved", "no_solution"} /\ number_of_nodes(G) >= 1) =>
        /\ pc = "solved"
        /\ z_val = PackingChromaticNumber(G)
        /\ (fn \in PathFns /\ it = 1) => z_val = K_n

\* C3 happens: a single complete block of three vertices or more is solved
C3_Witness ==
    /\ pc = "solved"
    /\ fn \in PathFns
    /\ it = 1
    /\ K_n >= 3
    /\ number_of_edges(G) = Choose2(K_n)

\* C4: the returned z_val is the largest color of the returned coloring
C4_ZIsMaxColor ==
    pc = "solved" =>
        z_val = MaxOf({color_assignment[v] : v \in DOMAIN color_assignment})

\* C4 happens: a solved graph whose coloring uses fewer colors than vertices
\* and more than two
C4_Witness ==
    /\ pc = "solved"
    /\ z_val >= 3
    /\ z_val < number_of_nodes(G)

\* C7: a mapping is returned only when every vertex has exactly one color
\* whose value is above the threshold, and then it has an entry for every vertex
C7_InconsistentValuesSignalled ==
    pc = "solved" =>
        /\ \A v \in G.nodes :
             Cardinality({i \in Colors(number_of_nodes(G)) : AboveThreshold(x[v][i])}) = 1
        /\ DOMAIN color_assignment = G.nodes

\* C10 as claimed: whatever graph is handed over, the model is feasible and
\* the solve does not come back empty-handed
C10_AlwaysFeasible == pc # "no_solution"

\* C10: for a graph with at least one vertex, connected or not, the model is
\* feasible and the solve does not come back empty-handed
C10_FeasibleWhenNonEmpty ==
    (pc \in {"solved", "no_solution"} /\ number_of_nodes(G) >= 1) => pc = "solved"

\* C10 happens: a graph of several components is solved
C10_Witness ==
    /\ pc = "solved"
    /\ \E v, u \in G.nodes : shortest_path_length(G, v, u) = NoPath
====
